---- MODULE Spec2Model ----
(***************************************************************************)
(* Secret-lifecycle and key-derivation model of src/web3auth.js.           *)
(*                                                                         *)
(* The module keeps two process-wide fields, web3auth (the client handle)  *)
(* and secret (the recovered entropy).  init, recoverSecret and            *)
(* forgetSecret are async functions: each runs synchronously up to its     *)
(* next await and is resumed later, so calls of several callers            *)
(* interleave at the awaits.  The getters are synchronous.                 *)
(*                                                                         *)
(* The identity-provider client (Web3Auth) and the bip39 / bip32 libraries *)
(* are collaborators.  The client's answers are inputs chosen by the       *)
(* environment; the libraries' results are symbolic terms that record what *)
(* they were derived from, with the libraries' argument checks kept.       *)
(***************************************************************************)
EXTENDS Integers, Sequences, FiniteSets

VARIABLES web3auth, secret, calls, ret, last

vars == <<web3auth, secret, calls, ret, last>>

(***************************************************************************)
(* Bounds                                                                  *)
(***************************************************************************)
\* Number of concurrent callers (async call chains that may be suspended).
MaxCallers == 2
\* Number of client objects init may construct in one behaviour.
MaxClients == 2

Callers == 1..MaxCallers

(***************************************************************************)
(* JavaScript values                                                       *)
(***************************************************************************)
\* null, as `let secret = null`.
JsNull == [t |-> "null", v |-> <<>>]
\* A string of hexadecimal digits, one element (0..15) per character.
JsString(h) == [t |-> "string", v |-> h]
\* !x: null, undefined and "" are falsy.
Falsy(x) == x.t \in {"null", "undefined"} \/ (x.t = "string" /\ x.v = <<>>)

\* Outcome of a call: a returned value, a thrown error, or nothing yet.
Val(v) == [kind |-> "value", val |-> v]
Err(m) == [kind |-> "error", val |-> m]
NoRes == [kind |-> "none", val |-> ""]
JsUndefined == [t |-> "undefined", v |-> <<>>]
JsTrue == [t |-> "boolean", v |-> <<1>>]

ErrNotInit == "Web3auth was not initialized. Initialize web3auth first."
ErrNoSecret == "Something is wrong: the entropy was not recovered."
ErrInvalidEntropy == "Invalid entropy"
ErrInvalidChildIndex == "Invalid child index"
ErrInvalidIndex == "Invalid index"
ErrConstructor == "constructor threw"
ErrConfigureAdapter == "configureAdapter threw"
ErrInitModal == "initModal rejected"
ErrConnect == "connect rejected"
ErrNullProvider == "TypeError: provider is null"
ErrRequest == "request rejected"
ErrLogout == "logout rejected"

(***************************************************************************)
(* Values the provider may hand back for {method: 'private_key'}           *)
(***************************************************************************)
\* "000102030405060708090a0b0c0d0e0f": 16 bytes.
HexA == [i \in 1..32 |-> IF i % 2 = 1 THEN 0 ELSE (i \div 2) - 1]
\* "ff" repeated 16 times: 16 bytes.
HexB == [i \in 1..32 |-> 15]
\* "abcdef": 3 bytes, not a BIP39 entropy length.
HexShort == <<10, 11, 12, 13, 14, 15>>

ProviderValues ==
    {JsNull, JsString(<<>>), JsString(HexA), JsString(HexB), JsString(HexShort)}

(***************************************************************************)
(* JavaScript numbers passed as accountIndex                               *)
(*                                                                         *)
(* A number is kept as its sign, the decimal digits of its integer part    *)
(* and the decimal digits of its fraction (empty for an integer), which is *)
(* what the template literal of getPrivateKey prints.                      *)
(***************************************************************************)
JsNumber(neg, int, frac) ==
    [t |-> "number", v |-> [neg |-> neg, int |-> int, frac |-> frac]]

Num0 == JsNumber(FALSE, <<0>>, <<>>)
Num1 == JsNumber(FALSE, <<1>>, <<>>)
\* 2^31 - 1
NumMaxIndex == JsNumber(FALSE, <<2, 1, 4, 7, 4, 8, 3, 6, 4, 7>>, <<>>)
\* 2^31
NumPow31 == JsNumber(FALSE, <<2, 1, 4, 7, 4, 8, 3, 6, 4, 8>>, <<>>)
\* 2^32 + 1
NumPow32 == JsNumber(FALSE, <<4, 2, 9, 4, 9, 6, 7, 2, 9, 7>>, <<>>)
NumMinus1 == JsNumber(TRUE, <<1>>, <<>>)
\* 1.5
NumFraction == JsNumber(FALSE, <<1>>, <<5>>)

AccountIndexes ==
    {JsUndefined, Num0, Num1, NumMaxIndex, NumPow31, NumPow32, NumMinus1,
     NumFraction}

DigitChars == <<"0", "1", "2", "3", "4", "5", "6", "7", "8", "9">>
DigitChar(d) == DigitChars[d + 1]
IsDigitChar(c) == \E d \in 0..9 : DigitChars[d + 1] = c
CharDigit(c) == CHOOSE d \in 0..9 : DigitChars[d + 1] = c

\* String(n) as `${accountIndex}` prints it.
NumberToString(n) ==
    (IF n.v.neg THEN <<"-">> ELSE <<>>)
    \o [i \in 1..Len(n.v.int) |-> DigitChar(n.v.int[i])]
    \o (IF n.v.frac = <<>> THEN <<>>
        ELSE <<".">> \o [i \in 1..Len(n.v.frac) |-> DigitChar(n.v.frac[i])])

(***************************************************************************)
(* bip39                                                                   *)
(***************************************************************************)
\* Buffer.from(entropy, 'hex'): two hex digits per byte, a trailing odd digit
\* is dropped.
HexToBytes(h) == [i \in 1..(Len(h) \div 2) |-> 16 * h[2 * i - 1] + h[2 * i]]

\* entropyToMnemonic: 16..32 bytes, a multiple of 4, else "Invalid entropy".
\* The word sequence is kept as a term over the entropy bytes.
entropyToMnemonic(entropy) ==
    LET bytes == HexToBytes(entropy.v)
    IN  IF Len(bytes) < 16 \/ Len(bytes) > 32 \/ Len(bytes) % 4 # 0
        THEN Err(ErrInvalidEntropy)
        ELSE Val([t |-> "mnemonic", v |-> bytes])

\* mnemonicToSeedSync(mnemonic), no passphrase: a term over the mnemonic.
mnemonicToSeedSync(mnemonic) == [t |-> "seed", v |-> mnemonic]

(***************************************************************************)
(* @scure/bip32                                                            *)
(***************************************************************************)
\* HDKey.fromMasterSeed(seed): the root key, with an empty derivation path.
fromMasterSeed(seed) == [t |-> "hdkey", v |-> [seed |-> seed, path |-> <<>>]]

\* HARDENED_OFFSET = 2^31 and Number.MAX_SAFE_INTEGER + 1 = 2^53, in decimal.
HardenedOffsetDigits == <<2, 1, 4, 7, 4, 8, 3, 6, 4, 8>>
UnsafeIntegerDigits == <<9, 0, 0, 7, 1, 9, 9, 2, 5, 4, 7, 4, 0, 9, 9, 2>>

RECURSIVE StripZeros(_)
StripZeros(d) ==
    IF Len(d) > 1 /\ d[1] = 0 THEN StripZeros(Tail(d)) ELSE d

\* a >= b for two decimal numbers without leading zeros.
DigitsGE(a, b) ==
    \/ Len(a) > Len(b)
    \/ /\ Len(a) = Len(b)
       /\ LET diff == {i \in 1..Len(a) : a[i] # b[i]}
          IN  \/ diff = {}
              \/ LET k == CHOOSE i \in diff : \A j \in diff : i <= j
                 IN  a[k] > b[k]

\* path.replace(/^[mM]'?\//, '')
StripRoot(path) ==
    IF Len(path) >= 2 /\ path[1] \in {"m", "M"} /\ path[2] = "/"
    THEN SubSeq(path, 3, Len(path))
    ELSE IF Len(path) >= 3 /\ path[1] \in {"m", "M"} /\ path[2] = "'"
            /\ path[3] = "/"
    THEN SubSeq(path, 4, Len(path))
    ELSE path

\* s.split('/')
RECURSIVE Split(_)
Split(s) ==
    LET cuts == {i \in 1..Len(s) : s[i] = "/"}
    IN  IF cuts = {} THEN <<s>>
        ELSE LET k == CHOOSE i \in cuts : \A j \in cuts : i <= j
             IN  <<SubSeq(s, 1, k - 1)>> \o Split(SubSeq(s, k + 1, Len(s)))

\* Variant of ParseChild without the range check on the parsed index.
ParseChild_noRangeCheck(c) ==
    LET hardened == Len(c) > 0 /\ c[Len(c)] = "'"
        m1 == IF hardened THEN SubSeq(c, 1, Len(c) - 1) ELSE c
    IN  IF Len(m1) = 0 \/ \E i \in 1..Len(m1) : ~IsDigitChar(m1[i])
        THEN Err(ErrInvalidChildIndex)
        ELSE Val([index |-> StripZeros([i \in 1..Len(m1) |-> CharDigit(m1[i])]),
                  hardened |-> hardened])

\* One step of the loop of derive: /^(\d+)('?)$/ on the part, then the
\* range check, then the hardened offset.  A child index is kept as the
\* decimal digits of the parsed number and the hardened flag; the number
\* deriveChild receives is index + 2^31 when hardened.
ParseChild(c) ==
    LET hardened == Len(c) > 0 /\ c[Len(c)] = "'"
        m1 == IF hardened THEN SubSeq(c, 1, Len(c) - 1) ELSE c
    IN  IF Len(m1) = 0 \/ \E i \in 1..Len(m1) : ~IsDigitChar(m1[i])
        THEN Err(ErrInvalidChildIndex)
        ELSE LET idx == StripZeros([i \in 1..Len(m1) |-> CharDigit(m1[i])])
             IN  IF DigitsGE(idx, UnsafeIntegerDigits)
                    \/ DigitsGE(idx, HardenedOffsetDigits)
                 THEN Err(ErrInvalidIndex)
                 ELSE Val([index |-> idx, hardened |-> hardened])

RECURSIVE DeriveParts(_, _)
DeriveParts(child, parts) ==
    IF parts = <<>> THEN Val(child)
    ELSE LET step == ParseChild(Head(parts))
         IN  IF step.kind = "error" THEN step
             ELSE DeriveParts(
                      [t |-> "hdkey",
                       v |-> [seed |-> child.v.seed,
                              path |-> Append(child.v.path, step.val)]],
                      Tail(parts))

\* HDKey.derive(path)
derive(key, path) ==
    IF Len(path) = 0 \/ path[1] \notin {"m", "M"}
    THEN Err("Path must start with m or M")
    ELSE IF path \in {<<"m">>, <<"M">>, <<"m", "'">>, <<"M", "'">>}
    THEN Val(key)
    ELSE DeriveParts(key, Split(StripRoot(path)))

(***************************************************************************)
(* Getters (synchronous).  web3auth is 0 for null and otherwise the number *)
(* of the client object it refers to.  A thrown error propagates through   *)
(* every caller up the chain.                                              *)
(***************************************************************************)
\* Variant of getEntropy that tests the secret before the session handle.
getEntropy_guardsSwapped ==
    IF Falsy(secret) THEN Err(ErrNoSecret)
    ELSE IF web3auth = 0 THEN Err(ErrNotInit)
    ELSE Val(secret)

getEntropy ==
    IF web3auth = 0 THEN Err(ErrNotInit)
    ELSE IF Falsy(secret) THEN Err(ErrNoSecret)
    ELSE Val(secret)

\* Variant of getMnemonic that reads the secret field itself instead of
\* calling getEntropy.
getMnemonic_readsField == entropyToMnemonic(secret)

getMnemonic ==
    LET entropy == getEntropy
    IN  IF entropy.kind = "error" THEN entropy
        ELSE entropyToMnemonic(entropy.val)

\* Variant of getSeed with a cache that is never invalidated: when the
\* artifact handed out last holds a seed, that seed is returned again
\* instead of one computed from the mnemonic of the stored entropy.
getSeed_cached ==
    LET mnemonic == getMnemonic
    IN  IF mnemonic.kind = "error" THEN mnemonic
        ELSE IF last.res.kind = "value" /\ last.res.val.t = "seed"
        THEN last.res
        ELSE IF last.res.kind = "value" /\ last.res.val.t # "mnemonic"
        THEN Val(last.res.val.v.seed)
        ELSE Val(mnemonicToSeedSync(mnemonic.val))

getSeed ==
    LET mnemonic == getMnemonic
    IN  IF mnemonic.kind = "error" THEN mnemonic
        ELSE Val(mnemonicToSeedSync(mnemonic.val))

getMasterKey ==
    LET seed == getSeed
    IN  IF seed.kind = "error" THEN seed
        ELSE Val(fromMasterSeed(seed.val))

\* The default parameter value: accountIndex = 0 when the argument is
\* undefined.
DefaultIndex(accountIndex) ==
    IF accountIndex.t = "undefined" THEN Num0 ELSE accountIndex

\* Variant of the path template whose account step is not hardened.
PathTemplate_accountNotHardened(accountIndex) ==
    <<"m", "/", "4", "4", "'", "/", "6", "3", "4", "'", "/">>
    \o NumberToString(accountIndex)
    \o <<"/", "0", "/", "0">>

\* `m/44'/634'/${accountIndex}'/0/0`
PathTemplate(accountIndex) ==
    <<"m", "/", "4", "4", "'", "/", "6", "3", "4", "'", "/">>
    \o NumberToString(accountIndex)
    \o <<"'", "/", "0", "/", "0">>

getPrivateKey(accountIndex) ==
    LET masterKey == getMasterKey
    IN  IF masterKey.kind = "error" THEN masterKey
        ELSE derive(masterKey.val, PathTemplate(DefaultIndex(accountIndex)))

getPrivateKeyBytes(accountIndex) ==
    LET priv_key == getPrivateKey(accountIndex)
    IN  IF priv_key.kind = "error" THEN priv_key
        ELSE Val([t |-> "privateKey", v |-> priv_key.val.v])

getPublicKeyBytes(accountIndex) ==
    LET priv_key == getPrivateKey(accountIndex)
    IN  IF priv_key.kind = "error" THEN priv_key
        ELSE Val([t |-> "publicKey", v |-> priv_key.val.v])

(***************************************************************************)
(* Calls                                                                   *)
(*                                                                         *)
(* calls[c] is the async call of caller c: the function, the await it is   *)
(* suspended on (pc), and                                                  *)
(*   conn     the client object recoverSecret invoked connect on           *)
(*   client   the client object whose provider the request was sent to     *)
(*   nConnect, nRequest, nLogout   collaborator operations invoked so far  *)
(*   held     for init: whether secret held a value when it was called     *)
(*   forgot   for recoverSecret: whether a forgetSecret call cleared the   *)
(*            secret while this call was suspended                         *)
(* When the promise of the call has settled, pc is "settled" and res is    *)
(* the value or error the caller will receive.  The caller receives it in  *)
(* a later step (receive); the continuations of other calls whose awaited  *)
(* promises have settled, and other calls, may run before that.            *)
(*                                                                         *)
(* ret describes the step just taken: the outcome of the call that         *)
(* finished in it (a synchronous getter that returned or threw, or an      *)
(* async call whose promise settled), or NoRet when no call finished.      *)
(* got is the value the private_key request resolved with, before the      *)
(* value secret had when that step began.  A getter returns to its caller  *)
(* (deliver) before anything else runs.                                    *)
(*                                                                         *)
(* last is a history variable, not a field of the module: the derived      *)
(* artifact a caller was handed most recently, with the getter and         *)
(* argument of that call, the value secret had when it was made, and       *)
(* whether a forgetSecret call has completed successfully since.  Next     *)
(* leaves it alone; ObservedNext keeps it.                                 *)
(***************************************************************************)
IdleCall ==
    [op |-> "none", pc |-> "idle", res |-> NoRes, conn |-> 0, client |-> 0,
     held |-> FALSE, forgot |-> FALSE,
     nConnect |-> 0, nRequest |-> 0, nLogout |-> 0]

NoRet ==
    [op |-> "none", arg |-> JsUndefined, res |-> NoRes, got |-> JsUndefined,
     before |-> JsUndefined, held |-> FALSE, forgot |-> FALSE,
     nConnect |-> 0, nRequest |-> 0, nLogout |-> 0]

NoLast ==
    [op |-> "none", arg |-> JsUndefined, secret |-> JsNull, res |-> NoRes,
     forgotten |-> FALSE]

AsyncOps == {"init", "recoverSecret", "forgetSecret"}

\* The outcome of the async call `call`, as the step that settles it shows.
Outcome(call, res, got) ==
    [op |-> call.op, arg |-> JsUndefined, res |-> res, got |-> got,
     before |-> secret, held |-> call.held, forgot |-> call.forgot,
     nConnect |-> call.nConnect, nRequest |-> call.nRequest,
     nLogout |-> call.nLogout]

\* The frame of a call whose promise settled with res.
Settled(call, res) ==
    [IdleCall EXCEPT !.op = call.op, !.pc = "settled", !.res = res]

\* The call frames after the call of caller c settled with res.
Settle(c, call, res) == [calls EXCEPT ![c] = Settled(call, res)]

\* The call frames after caller c's forgetSecret cleared the secret: c's
\* call has settled, and every recoverSecret still suspended has been
\* overtaken by it.
Forgotten(c, res) ==
    [d \in Callers |->
        IF d = c THEN Settled(calls[c], res)
        ELSE IF calls[d].op = "recoverSecret"
                /\ calls[d].pc \in {"connect", "request"}
        THEN [calls[d] EXCEPT !.forgot = TRUE]
        ELSE calls[d]]

\* A synchronous getter is returning to its caller.
Returning == ret # NoRet /\ ret.op \notin AsyncOps

\* Caller c has no call of its own pending and the JavaScript thread is free.
Free(c) == calls[c].pc = "idle" /\ ~Returning

Init ==
    /\ web3auth = 0
    /\ secret = JsNull
    /\ calls = [c \in Callers |-> IdleCall]
    /\ ret = NoRet
    /\ last = NoLast

\* Variant of init that resets secret when it replaces the client.
init_dropsSecret(c) ==
    /\ Free(c)
    /\ \E throws \in {"nothing", "constructor", "configureAdapter"} :
          LET call == [IdleCall EXCEPT !.op = "init", !.held = ~Falsy(secret)]
          IN  IF throws = "constructor"
              THEN /\ ret' = Outcome(call, Err(ErrConstructor), JsUndefined)
                   /\ calls' = Settle(c, call, Err(ErrConstructor))
                   /\ UNCHANGED <<web3auth, secret>>
              ELSE /\ web3auth < MaxClients
                   /\ web3auth' = web3auth + 1
                   /\ secret' = JsNull
                   /\ IF throws = "configureAdapter"
                      THEN /\ ret' = Outcome(call, Err(ErrConfigureAdapter),
                                             JsUndefined)
                           /\ calls' = Settle(c, call, Err(ErrConfigureAdapter))
                      ELSE /\ ret' = NoRet
                           /\ calls' = [calls EXCEPT ![c] =
                                  [call EXCEPT !.pc = "initModal"]]

\* init, lines 18-38, up to the await.  When a constructor of lines 22-29
\* throws, web3auth is not assigned.  Otherwise line 29 assigns the new
\* client to web3auth; then configureAdapter (line 36) may throw, and init
\* rejects with the new client in place and initModal never called;
\* otherwise the call is suspended on initModal.
init(c) ==
    /\ Free(c)
    /\ \E throws \in {"nothing", "constructor", "configureAdapter"} :
          LET call == [IdleCall EXCEPT !.op = "init", !.held = ~Falsy(secret)]
          IN  IF throws = "constructor"
              THEN /\ ret' = Outcome(call, Err(ErrConstructor), JsUndefined)
                   /\ calls' = Settle(c, call, Err(ErrConstructor))
                   /\ UNCHANGED web3auth
              ELSE /\ web3auth < MaxClients
                   /\ web3auth' = web3auth + 1
                   /\ IF throws = "configureAdapter"
                      THEN /\ ret' = Outcome(call, Err(ErrConfigureAdapter),
                                             JsUndefined)
                           /\ calls' = Settle(c, call, Err(ErrConfigureAdapter))
                      ELSE /\ ret' = NoRet
                           /\ calls' = [calls EXCEPT ![c] =
                                  [call EXCEPT !.pc = "initModal"]]
    /\ UNCHANGED secret

\* Variant of init that drops the client again when initModal rejects.
init_resume_resetsOnFailure(c) ==
    /\ ~Returning
    /\ calls[c].pc = "initModal"
    /\ \E ok \in BOOLEAN :
          LET res == IF ok THEN Val(JsUndefined) ELSE Err(ErrInitModal)
          IN  /\ ret' = Outcome(calls[c], res, JsUndefined)
              /\ calls' = Settle(c, calls[c], res)
              /\ web3auth' = IF ok THEN web3auth ELSE 0
    /\ UNCHANGED secret

\* init, line 38 settles: initModal resolved or rejected.
init_resume(c) ==
    /\ ~Returning
    /\ calls[c].pc = "initModal"
    /\ \E ok \in BOOLEAN :
          LET res == IF ok THEN Val(JsUndefined) ELSE Err(ErrInitModal)
          IN  /\ ret' = Outcome(calls[c], res, JsUndefined)
              /\ calls' = Settle(c, calls[c], res)
    /\ UNCHANGED <<web3auth, secret>>

\* Variant of recoverSecret without the guard of line 49.
recoverSecret_noGuard(c) ==
    /\ Free(c)
    /\ calls' = [calls EXCEPT ![c] =
           [IdleCall EXCEPT !.op = "recoverSecret", !.pc = "connect",
                            !.conn = web3auth, !.nConnect = 1]]
    /\ ret' = NoRet
    /\ UNCHANGED <<web3auth, secret>>

\* recoverSecret, lines 49-50: the guard, then connect on the current client.
recoverSecret(c) ==
    /\ Free(c)
    /\ LET call == [IdleCall EXCEPT !.op = "recoverSecret"]
       IN  IF web3auth = 0
           THEN /\ ret' = Outcome(call, Err(ErrNotInit), JsUndefined)
                /\ calls' = Settle(c, call, Err(ErrNotInit))
           ELSE /\ calls' = [calls EXCEPT ![c] =
                       [call EXCEPT !.pc = "connect", !.conn = web3auth,
                                    !.nConnect = 1]]
                /\ ret' = NoRet
    /\ UNCHANGED <<web3auth, secret>>

\* Variant of recoverSecret that invokes connect a second time when the
\* first attempt rejects.
recoverSecret_connected_retries(c) ==
    /\ ~Returning
    /\ calls[c].pc = "connect"
    /\ \E outcome \in {"resolved", "rejected"}, providerIsNull \in BOOLEAN :
          /\ providerIsNull => (outcome = "resolved" /\ web3auth # calls[c].conn)
          /\ IF outcome = "rejected" /\ calls[c].nConnect = 1
             THEN /\ calls' = [calls EXCEPT ![c] = [@ EXCEPT !.nConnect = 2]]
                  /\ ret' = NoRet
             ELSE IF outcome = "rejected"
             THEN /\ ret' = Outcome(calls[c], Err(ErrConnect), JsUndefined)
                  /\ calls' = Settle(c, calls[c], Err(ErrConnect))
             ELSE IF providerIsNull
             THEN /\ ret' = Outcome(calls[c], Err(ErrNullProvider), JsUndefined)
                  /\ calls' = Settle(c, calls[c], Err(ErrNullProvider))
             ELSE /\ calls' = [calls EXCEPT ![c] =
                         [@ EXCEPT !.pc = "request", !.client = web3auth,
                                   !.nRequest = @ + 1]]
                  /\ ret' = NoRet
    /\ UNCHANGED <<web3auth, secret>>

\* recoverSecret, lines 50-53: connect settled.  On success the provider is
\* read from the client web3auth refers to now and the private key is
\* requested from it.  A client that has just connected has a provider; the
\* provider of any other client may be null, and the request then throws.
recoverSecret_connected(c) ==
    /\ ~Returning
    /\ calls[c].pc = "connect"
    /\ \E outcome \in {"resolved", "rejected"}, providerIsNull \in BOOLEAN :
          /\ providerIsNull => (outcome = "resolved" /\ web3auth # calls[c].conn)
          /\ IF outcome = "rejected"
             THEN /\ ret' = Outcome(calls[c], Err(ErrConnect), JsUndefined)
                  /\ calls' = Settle(c, calls[c], Err(ErrConnect))
             ELSE IF providerIsNull
             THEN /\ ret' = Outcome(calls[c], Err(ErrNullProvider), JsUndefined)
                  /\ calls' = Settle(c, calls[c], Err(ErrNullProvider))
             ELSE /\ calls' = [calls EXCEPT ![c] =
                         [@ EXCEPT !.pc = "request", !.client = web3auth,
                                   !.nRequest = @ + 1]]
                  /\ ret' = NoRet
    /\ UNCHANGED <<web3auth, secret>>

\* Variant of recoverSecret that resets secret when the request rejects.
recoverSecret_answered_clearsOnFailure(c) ==
    /\ ~Returning
    /\ calls[c].pc = "request"
    /\ \/ \E value \in ProviderValues :
             /\ secret' = value
             /\ ret' = Outcome(calls[c], Val(JsTrue), value)
             /\ calls' = Settle(c, calls[c], Val(JsTrue))
       \/ /\ ret' = Outcome(calls[c], Err(ErrRequest), JsUndefined)
          /\ calls' = Settle(c, calls[c], Err(ErrRequest))
          /\ secret' = JsNull
    /\ UNCHANGED web3auth

\* recoverSecret, lines 53-55: the request settled.  Its value, whatever it
\* is, is assigned to secret and the call returns true.
recoverSecret_answered(c) ==
    /\ ~Returning
    /\ calls[c].pc = "request"
    /\ \/ \E value \in ProviderValues :
             /\ secret' = value
             /\ ret' = Outcome(calls[c], Val(JsTrue), value)
             /\ calls' = Settle(c, calls[c], Val(JsTrue))
       \/ /\ ret' = Outcome(calls[c], Err(ErrRequest), JsUndefined)
          /\ calls' = Settle(c, calls[c], Err(ErrRequest))
          /\ UNCHANGED secret
    /\ UNCHANGED web3auth

\* Variant of forgetSecret that clears secret before it invokes logout.
forgetSecret_clearsFirst(c) ==
    /\ Free(c)
    /\ LET call == [IdleCall EXCEPT !.op = "forgetSecret"]
       IN  IF web3auth = 0
           THEN /\ ret' = Outcome(call, Err(ErrNotInit), JsUndefined)
                /\ calls' = Settle(c, call, Err(ErrNotInit))
                /\ UNCHANGED secret
           ELSE /\ calls' = [calls EXCEPT ![c] =
                       [call EXCEPT !.pc = "logout", !.client = web3auth,
                                    !.nLogout = 1]]
                /\ secret' = JsNull
                /\ ret' = NoRet
    /\ UNCHANGED web3auth

\* forgetSecret, lines 142-143: the guard, then logout on the current client.
forgetSecret(c) ==
    /\ Free(c)
    /\ LET call == [IdleCall EXCEPT !.op = "forgetSecret"]
       IN  IF web3auth = 0
           THEN /\ ret' = Outcome(call, Err(ErrNotInit), JsUndefined)
                /\ calls' = Settle(c, call, Err(ErrNotInit))
           ELSE /\ calls' = [calls EXCEPT ![c] =
                       [call EXCEPT !.pc = "logout", !.client = web3auth,
                                    !.nLogout = 1]]
                /\ ret' = NoRet
    /\ UNCHANGED <<web3auth, secret>>

\* Variant of forgetSecret without the assignment of line 144.
forgetSecret_resume_keepsSecret(c) ==
    /\ ~Returning
    /\ calls[c].pc = "logout"
    /\ \E outcome \in {"resolved", "nothing", "rejected"} :
          LET res == IF outcome = "rejected" THEN Err(ErrLogout)
                     ELSE Val(JsUndefined)
          IN  /\ ret' = Outcome(calls[c], res, JsUndefined)
              /\ calls' = Settle(c, calls[c], res)
    /\ UNCHANGED <<web3auth, secret>>

\* forgetSecret, lines 143-144: logout settled.  It resolves when it logged
\* the user out ("resolved") or found nothing to clean up ("nothing"), and
\* secret is cleared; when it rejects, the error propagates and line 144
\* does not run.
forgetSecret_resume(c) ==
    /\ ~Returning
    /\ calls[c].pc = "logout"
    /\ \E outcome \in {"resolved", "nothing", "rejected"} :
          IF outcome = "rejected"
          THEN /\ ret' = Outcome(calls[c], Err(ErrLogout), JsUndefined)
               /\ calls' = Settle(c, calls[c], Err(ErrLogout))
               /\ UNCHANGED secret
          ELSE /\ ret' = Outcome(calls[c], Val(JsUndefined), JsUndefined)
               /\ calls' = Forgotten(c, Val(JsUndefined))
               /\ secret' = JsNull
    /\ UNCHANGED web3auth

\* The caller of a settled async call receives its value or error.
receive(c) ==
    /\ ~Returning
    /\ calls[c].pc = "settled"
    /\ calls' = [calls EXCEPT ![c] = IdleCall]
    /\ ret' = NoRet
    /\ UNCHANGED <<web3auth, secret>>

\* Variant of the getters that wipes the secret when the call throws.
Returns_wipesOnError(op, arg, res) ==
    /\ ~Returning
    /\ ret' = [NoRet EXCEPT !.op = op, !.arg = arg, !.res = res,
                            !.before = secret]
    /\ secret' = IF res.kind = "error" THEN JsNull ELSE secret
    /\ UNCHANGED <<web3auth, calls>>

\* A synchronous getter call: it runs to its return or throw.
Returns(op, arg, res) ==
    /\ ~Returning
    /\ ret' = [NoRet EXCEPT !.op = op, !.arg = arg, !.res = res,
                            !.before = secret]
    /\ UNCHANGED <<web3auth, secret, calls>>

call_getEntropy == Returns("getEntropy", JsUndefined, getEntropy)
call_getMnemonic == Returns("getMnemonic", JsUndefined, getMnemonic)
call_getSeed == Returns("getSeed", JsUndefined, getSeed)
call_getMasterKey == Returns("getMasterKey", JsUndefined, getMasterKey)
call_getPrivateKey ==
    \E accountIndex \in AccountIndexes :
        Returns("getPrivateKey", accountIndex, getPrivateKey(accountIndex))
call_getPrivateKeyBytes ==
    \E accountIndex \in AccountIndexes :
        Returns("getPrivateKeyBytes", accountIndex,
                getPrivateKeyBytes(accountIndex))
call_getPublicKeyBytes ==
    \E accountIndex \in AccountIndexes :
        Returns("getPublicKeyBytes", accountIndex,
                getPublicKeyBytes(accountIndex))

\* The getter that just ran hands its value or error to its caller.
deliver ==
    /\ Returning
    /\ ret' = NoRet
    /\ UNCHANGED <<web3auth, secret, calls>>

Next ==
    \/ \E c \in Callers : init(c) /\ UNCHANGED last
    \/ \E c \in Callers : init_resume(c) /\ UNCHANGED last
    \/ \E c \in Callers : recoverSecret(c) /\ UNCHANGED last
    \/ \E c \in Callers : recoverSecret_connected(c) /\ UNCHANGED last
    \/ \E c \in Callers : recoverSecret_answered(c) /\ UNCHANGED last
    \/ \E c \in Callers : forgetSecret(c) /\ UNCHANGED last
    \/ \E c \in Callers : forgetSecret_resume(c) /\ UNCHANGED last
    \/ \E c \in Callers : receive(c) /\ UNCHANGED last
    \/ call_getEntropy /\ UNCHANGED last
    \/ call_getMnemonic /\ UNCHANGED last
    \/ call_getSeed /\ UNCHANGED last
    \/ call_getMasterKey /\ UNCHANGED last
    \/ call_getPrivateKey /\ UNCHANGED last
    \/ call_getPrivateKeyBytes /\ UNCHANGED last
    \/ call_getPublicKeyBytes /\ UNCHANGED last
    \/ deliver /\ UNCHANGED last

Spec == Init /\ [][Next]_vars

\* The collaborator answers every connect, request and logout, the
\* continuation of an awaited promise that settled is run by the event loop,
\* and a getter returns to its caller.  The continuations are
\* strongly fair: a continuation waits while another call runs on the
\* JavaScript thread, and runs once the thread is free.
Answered(c) ==
    /\ \/ recoverSecret_connected(c)
       \/ recoverSecret_answered(c)
       \/ forgetSecret_resume(c)
    /\ UNCHANGED last

Fairness ==
    /\ WF_vars(deliver /\ UNCHANGED last)
    /\ \A c \in Callers : SF_vars(Answered(c))

FairSpec == Spec /\ Fairness

(***************************************************************************)
(* One observed caller.  Observer invokes the functions of the module one  *)
(* after another, each call after the previous one was received, and keeps *)
(* in last the artifact the most recent derivation getter returned.  The   *)
(* steps are those of Next for this caller; only last is added.            *)
(***************************************************************************)
Observer == CHOOSE c \in Callers : \A d \in Callers : c <= d

\* last after the getter that is returning has handed over its result: a
\* derived artifact is kept, an error or the entropy itself is not.
Remembered ==
    IF ret.res.kind = "value" /\ ret.op # "getEntropy"
    THEN [op |-> ret.op, arg |-> ret.arg, secret |-> ret.before,
          res |-> ret.res, forgotten |-> FALSE]
    ELSE last

\* last after a forgetSecret call settled in this step.
Noted ==
    IF ret'.res.kind = "value" /\ last # NoLast
    THEN [last EXCEPT !.forgotten = TRUE]
    ELSE last

ObservedNext ==
    \/ init(Observer) /\ UNCHANGED last
    \/ init_resume(Observer) /\ UNCHANGED last
    \/ recoverSecret(Observer) /\ UNCHANGED last
    \/ recoverSecret_connected(Observer) /\ UNCHANGED last
    \/ recoverSecret_answered(Observer) /\ UNCHANGED last
    \/ forgetSecret(Observer) /\ UNCHANGED last
    \/ forgetSecret_resume(Observer) /\ last' = Noted
    \/ receive(Observer) /\ UNCHANGED last
    \/ call_getEntropy /\ UNCHANGED last
    \/ call_getMnemonic /\ UNCHANGED last
    \/ call_getSeed /\ UNCHANGED last
    \/ call_getMasterKey /\ UNCHANGED last
    \/ call_getPrivateKey /\ UNCHANGED last
    \/ call_getPrivateKeyBytes /\ UNCHANGED last
    \/ call_getPublicKeyBytes /\ UNCHANGED last
    \/ deliver /\ last' = Remembered

ObservedSpec == Init /\ [][ObservedNext]_vars

(***************************************************************************)
(* Vocabulary of the properties                                            *)
(***************************************************************************)
\* A call of `op` finishes in this step: a getter returns or throws, or the
\* promise of an async call settles.
Finishes(op) ==
    /\ ret'.op = op
    /\ IF op \in AsyncOps
       THEN \E c \in Callers : /\ calls[c].pc # "settled"
                                /\ calls'[c].pc = "settled"
                                /\ calls'[c].op = op
                                /\ calls'[c].res = ret'.res
       ELSE ~Returning
Succeeds(op) == Finishes(op) /\ ret'.res.kind = "value"
Fails(op) == Finishes(op) /\ ret'.res.kind = "error"
\* Caller c invokes `op` in this step and the call is suspended on an await.
Suspends(c, op) ==
    /\ calls[c].pc = "idle"
    /\ calls'[c].op = op
    /\ calls'[c].pc \notin {"idle", "settled"}

DerivationGetters ==
    {"getMnemonic", "getSeed", "getMasterKey", "getPrivateKey",
     "getPrivateKeyBytes", "getPublicKeyBytes"}
KeyGetters == {"getPrivateKey", "getPrivateKeyBytes", "getPublicKeyBytes"}

\* Every getter, called in the current state, throws the
\* secret-not-recovered error.
GettersFailClosed ==
    /\ getEntropy = Err(ErrNoSecret)
    /\ getMnemonic = Err(ErrNoSecret)
    /\ getSeed = Err(ErrNoSecret)
    /\ getMasterKey = Err(ErrNoSecret)
    /\ \A accountIndex \in AccountIndexes :
          /\ getPrivateKey(accountIndex) = Err(ErrNoSecret)
          /\ getPrivateKeyBytes(accountIndex) = Err(ErrNoSecret)
          /\ getPublicKeyBytes(accountIndex) = Err(ErrNoSecret)

(***************************************************************************)
(* C1.  getEntropy has exactly three outcomes, decided in this order: the  *)
(* not-initialized error when the session handle is absent; otherwise the  *)
(* secret-not-recovered error when no secret is stored (the field is null  *)
(* or empty); otherwise the stored Entropy.  It never returns null or an   *)
(* empty value.                                                            *)
(***************************************************************************)
C1_GetEntropyOutcomes ==
    ret.op = "getEntropy" =>
        /\ web3auth = 0 => ret.res = Err(ErrNotInit)
        /\ (web3auth # 0 /\ Falsy(secret)) => ret.res = Err(ErrNoSecret)
        /\ (web3auth # 0 /\ ~Falsy(secret)) => ret.res = Val(secret)
        /\ ret.res.kind \in {"value", "error"}
        /\ ret.res.kind = "value" =>
              (ret.res.val.t = "string" /\ ret.res.val.v # <<>>)

C1_Witness ==
    /\ ret.op = "getEntropy"
    /\ ret.res = Val(JsString(HexA))

(***************************************************************************)
(* C2.  Once a forgetSecret call has completed successfully, getEntropy    *)
(* and every derivation getter fail with the secret-not-recovered error,   *)
(* and keep failing so in every later state until a recoverSecret call     *)
(* completes successfully.                                                 *)
(***************************************************************************)
\* The getters fail closed in the state a successful forgetSecret leaves,
\* they all fail closed whenever getEntropy does, and getEntropy goes on
\* failing closed across every step but a successful recoverSecret.
C2_ForgetFailsClosed ==
    /\ []((ret.op = "forgetSecret" /\ ret.res.kind = "value")
              => GettersFailClosed)
    /\ [](getEntropy = Err(ErrNoSecret) => GettersFailClosed)
    /\ [][(getEntropy = Err(ErrNoSecret) /\ ~Succeeds("recoverSecret"))
              => getEntropy' = Err(ErrNoSecret)]_vars

C2_Witness ==
    /\ ret.op = "forgetSecret"
    /\ ret.res.kind = "value"
    /\ ~Falsy(ret.before)
    /\ GettersFailClosed

(***************************************************************************)
(* C3.  Whenever a forgetSecret call made on an initialized session        *)
(* finishes, whatever logout did (resolved, nothing to clean up,          *)
(* rejected), the secret field is null afterwards.                         *)
(***************************************************************************)
C3_ForgetAlwaysClears ==
    [][(Finishes("forgetSecret") /\ web3auth # 0) => secret' = JsNull]_vars

(***************************************************************************)
(* C4.  While the session handle is absent, a recoverSecret or             *)
(* forgetSecret call finishes at once with the not-initialized error,      *)
(* has invoked none of connect, request and logout, and leaves the         *)
(* session handle and the secret absent; no such call is ever suspended.   *)
(***************************************************************************)
C4_UninitializedCallsFail ==
    /\ [](web3auth = 0 =>
            \A c \in Callers :
                calls[c].op \in {"recoverSecret", "forgetSecret"} =>
                    (calls[c].pc = "settled" /\ calls[c].res = Err(ErrNotInit)))
    /\ [][(web3auth = 0 /\ \E op \in {"recoverSecret", "forgetSecret"} :
                  \/ Finishes(op)
                  \/ \E c \in Callers : Suspends(c, op))
            => /\ ret'.op \in {"recoverSecret", "forgetSecret"}
               /\ ret'.res = Err(ErrNotInit)
               /\ ret'.nConnect = 0 /\ ret'.nRequest = 0 /\ ret'.nLogout = 0
               /\ \A c \in Callers :
                     \/ calls'[c] = calls[c]
                     \/ /\ calls'[c].pc = "settled"
                        /\ calls'[c].res = Err(ErrNotInit)
               /\ web3auth' = 0
               /\ secret = JsNull /\ secret' = JsNull]_vars

C4_Witness ==
    /\ web3auth = 0
    /\ secret = JsNull
    /\ ret.op = "forgetSecret"
    /\ ret.res = Err(ErrNotInit)
    /\ ret.nLogout = 0

(***************************************************************************)
(* C5.  In every state where no secret is stored, whether the session is   *)
(* uninitialized, initialized but never recovered, or a recovery is still  *)
(* in flight, each derivation getter throws the precondition error         *)
(* getEntropy throws there (not-initialized without a session handle,      *)
(* secret-not-recovered with one) and returns no value.                    *)
(***************************************************************************)
C5_NoArtifactWithoutEntropy ==
    (ret.op \in DerivationGetters /\ Falsy(secret)) =>
        ret.res = Err(IF web3auth = 0 THEN ErrNotInit ELSE ErrNoSecret)

C5_Witness ==
    /\ ret.op = "getPublicKeyBytes"
    /\ ret.res = Err(ErrNoSecret)
    /\ Falsy(secret)
    /\ \E c \in Callers : calls[c].op = "recoverSecret" /\ calls[c].pc = "request"

(***************************************************************************)
(* C6.  Whenever recoverSecret returns true, the secret field holds the    *)
(* value the provider returned for the private_key request and getEntropy, *)
(* called next, returns that value, for every value the provider can       *)
(* return, an empty or null one included.                                  *)
(***************************************************************************)
C6_RecoverTrueMeansRecovered ==
    (ret.op = "recoverSecret" /\ ret.res = Val(JsTrue)) =>
        /\ secret = ret.got
        /\ getEntropy = Val(ret.got)

(***************************************************************************)
(* C7.  A recoverSecret call that fails hands the error to its caller,     *)
(* does not return true, and no step of it writes the secret field or the  *)
(* session handle; it has invoked connect and the request at most once     *)
(* each and starts no further call.                                        *)
(***************************************************************************)
C7_FailedRecoverLeavesSecret ==
    [][/\ Fails("recoverSecret") =>
             /\ secret' = secret
             /\ web3auth' = web3auth
             /\ ret'.res # Val(JsTrue)
             /\ ret'.nConnect <= 1 /\ ret'.nRequest <= 1
             /\ \A c \in Callers :
                   calls'[c] = calls[c] \/ calls'[c].pc = "settled"
       /\ \A c \in Callers :
             (/\ calls'[c].op = "recoverSecret"
              /\ calls'[c].res # Val(JsTrue)
              /\ [calls'[c] EXCEPT !.forgot = calls[c].forgot] # calls[c]) =>
                 (secret' = secret /\ web3auth' = web3auth)]_vars

C7_Witness ==
    /\ ret.op = "recoverSecret"
    /\ ret.res = Err(ErrRequest)
    /\ ret.nConnect = 1 /\ ret.nRequest = 1
    /\ secret = JsString(HexA)

(***************************************************************************)
(* C8 as claimed.  When an init call made while a secret was held          *)
(* completes successfully, the secret field is absent and getEntropy       *)
(* fails with the secret-not-recovered error.                              *)
(***************************************************************************)
C8_ReinitDropsSecret ==
    (ret.op = "init" /\ ret.res.kind = "value" /\ ret.held) =>
        /\ Falsy(secret)
        /\ getEntropy = Err(ErrNoSecret)

(***************************************************************************)
(* C8 as amended.  No step of init, neither the construction of the        *)
(* client nor the settling of initModal, changes the secret field: a       *)
(* secret held before the step is still what getEntropy returns after it.  *)
(***************************************************************************)
C8_InitKeepsSecret ==
    [][(Finishes("init") \/ \E c \in Callers : Suspends(c, "init")) =>
           /\ secret' = secret
           /\ (~Falsy(secret) /\ web3auth' # 0) => getEntropy' = Val(secret)]_vars

C8_Witness ==
    /\ ret.op = "init"
    /\ ret.res.kind = "value"
    /\ ret.held
    /\ web3auth = 2
    /\ secret = JsString(HexA)
    /\ getEntropy = Val(JsString(HexA))

(***************************************************************************)
(* C9.  At most one call among recoverSecret and forgetSecret is           *)
(* suspended between its guard and its write to the secret field, and a    *)
(* stored Entropy is not changed by anything but a forgetSecret that       *)
(* completes.                                                              *)
(***************************************************************************)
C9_OneMutationInFlight ==
    /\ Cardinality({c \in Callers :
           calls[c].pc \in {"connect", "request", "logout"}}) <= 1
    /\ (ret # NoRet /\ ~Falsy(ret.before) /\ secret # ret.before) =>
           (ret.op = "forgetSecret" /\ ret.res.kind = "value")

(***************************************************************************)
(* C10.  Account indexes of the key getters.                               *)
(***************************************************************************)
IndexesInRange == {Num0, Num1, NumMaxIndex}
IndexesOutOfRange == {NumPow31, NumPow32, NumMinus1, NumFraction}

KeyGetter(op, accountIndex) ==
    CASE op = "getPrivateKey" -> getPrivateKey(accountIndex)
      [] op = "getPrivateKeyBytes" -> getPrivateKeyBytes(accountIndex)
      [] op = "getPublicKeyBytes" -> getPublicKeyBytes(accountIndex)

\* The outcome in ret obeys the index contract: an integer in 0 .. 2^31-1
\* succeeds, any other number fails with an index error of derive, and no
\* argument gives what accountIndex = 0 gives.
IndexContract ==
    /\ ret.arg \in IndexesInRange \cup {JsUndefined} => ret.res.kind = "value"
    /\ ret.arg \in IndexesOutOfRange =>
           ret.res \in {Err(ErrInvalidIndex), Err(ErrInvalidChildIndex)}
    /\ ret.arg = JsUndefined => ret.res = KeyGetter(ret.op, Num0)

\* A hex string of 16, 20, 24, 28 or 32 bytes.
ValidEntropy(s) ==
    s.t = "string" /\ Len(s.v) \div 2 \in {16, 20, 24, 28, 32}

(***************************************************************************)
(* C10 as claimed.  With any secret present, getPrivateKey,                *)
(* getPrivateKeyBytes and getPublicKeyBytes obey the index contract.       *)
(***************************************************************************)
C10_IndexContractAnySecret ==
    (ret.op \in KeyGetters /\ ~Falsy(secret)) => IndexContract

(***************************************************************************)
(* C10 as amended.  With a secret present that is valid BIP39 entropy the  *)
(* key getters obey the index contract; with a present secret of any       *)
(* other length they fail with the invalid-entropy error whatever the      *)
(* index.  In both cases the call leaves the session handle, the secret    *)
(* and the calls in flight unchanged.                                      *)
(***************************************************************************)
C10_IndexContractValidEntropy ==
    /\ []((ret.op \in KeyGetters /\ ~Falsy(secret)) =>
             IF ValidEntropy(secret) THEN IndexContract
             ELSE ret.res = Err(ErrInvalidEntropy))
    /\ [][(\E op \in KeyGetters : Finishes(op)) =>
             UNCHANGED <<web3auth, secret, calls>>]_vars

C10_Witness ==
    /\ ret.op = "getPrivateKey"
    /\ ret.arg = NumPow31
    /\ ret.res = Err(ErrInvalidIndex)
    /\ secret = JsString(HexA)

(***************************************************************************)
(* C11.  Every derived artifact is a function of the Entropy stored at the *)
(* moment of the call and, for child keys, of the account index of the     *)
(* call, computed anew on each call.  For every derivation getter that     *)
(* returns a value: the entropy at the root of the returned mnemonic, seed *)
(* or key is the stored secret and the account step is the index of the    *)
(* call; when the caller was handed an artifact by an earlier call of the  *)
(* same getter with the same index and the stored Entropy is the same now  *)
(* as it was then, whatever happened in between, the two results are       *)
(* equal; and when the stored Entropy differs from the one of an earlier   *)
(* call (after forgetSecret and a recoverSecret that stored another value, *)
(* or after recoverSecret overwrote it), the result is not derived from    *)
(* the earlier Entropy.                                                    *)
(***************************************************************************)
\* The entropy bytes a derived artifact was computed from.
RootEntropy(artifact) ==
    CASE artifact.t = "mnemonic" -> artifact.v
      [] artifact.t = "seed" -> artifact.v.v
      [] artifact.t \in {"hdkey", "privateKey", "publicKey"} ->
             artifact.v.seed.v.v

\* The call that just returned and the earlier call kept in last are calls
\* of the same getter with the same account index (an omitted index is 0).
SameCallAsLast ==
    /\ last.op = ret.op
    /\ ret.op \in KeyGetters => DefaultIndex(last.arg) = DefaultIndex(ret.arg)

C11_DerivedFromCurrentEntropy ==
    (ret.op \in DerivationGetters /\ ret.res.kind = "value") =>
        /\ secret.t = "string"
        /\ RootEntropy(ret.res.val) = HexToBytes(secret.v)
        /\ ret.op \in KeyGetters =>
              ret.res.val.v.path[3].index = DefaultIndex(ret.arg).v.int
        /\ (SameCallAsLast /\ last.secret = secret) => ret.res = last.res
        /\ (last # NoLast /\ HexToBytes(last.secret.v) # HexToBytes(secret.v)) =>
              /\ RootEntropy(ret.res.val) # RootEntropy(last.res.val)
              /\ ret.res # last.res

\* A key was derived while the first entropy was stored; forgetSecret then
\* completed and recoverSecret stored the second entropy; the same getter
\* called with the same index returns the key of the second entropy.
C11_Witness ==
    /\ ret.op = "getPrivateKeyBytes"
    /\ ret.arg = Num1
    /\ ret.res.kind = "value"
    /\ secret = JsString(HexB)
    /\ RootEntropy(ret.res.val) = HexToBytes(HexB)
    /\ last.op = "getPrivateKeyBytes"
    /\ last.arg = Num1
    /\ last.secret = JsString(HexA)
    /\ RootEntropy(last.res.val) = HexToBytes(HexA)
    /\ last.forgotten

\* The other case of C11: the same entropy is stored again after
\* forgetSecret completed and the session handle was replaced in between,
\* the index is omitted in one call and 0 in the other, and the getter
\* returns the key it returned before.
C11_SameEntropyAgain ==
    /\ ret.op = "getPrivateKey"
    /\ ret.arg = Num0
    /\ ret.res.kind = "value"
    /\ last.op = "getPrivateKey"
    /\ last.arg = JsUndefined
    /\ last.secret = secret
    /\ last.forgotten
    /\ web3auth = MaxClients
    /\ ret.res = last.res

(***************************************************************************)
(* C12.  Once a forgetSecret call has completed, the secret is absent      *)
(* until a recoverSecret call invoked after that completion succeeds: a    *)
(* recoverSecret that was already suspended when forgetSecret cleared the  *)
(* secret does not store a value into the cleared field when it resumes.   *)
(***************************************************************************)
C12_ForgetWinsOverInFlightRecover ==
    (/\ ret.op = "recoverSecret"
     /\ ret.forgot
     /\ ret.res = Val(JsTrue)
     /\ ret.before = JsNull) => secret = JsNull

(***************************************************************************)
(* C13.  The session counts as initialized only after an init call has     *)
(* completed successfully.  While the only init call made so far is still  *)
(* suspended in initModal, or after its initModal has rejected, getEntropy *)
(* fails with the not-initialized error and no recoverSecret or            *)
(* forgetSecret call got past its guard.                                   *)
(***************************************************************************)
\* The first client was constructed and its init call has not completed
\* successfully: it is suspended in initModal, or it just failed, in
\* configureAdapter or in initModal.
FirstInitNotCompleted ==
    /\ web3auth = 1
    /\ \/ \E c \in Callers : calls[c].op = "init" /\ calls[c].pc = "initModal"
       \/ /\ ret.op = "init"
          /\ ret.res \in {Err(ErrConfigureAdapter), Err(ErrInitModal)}

C13_InitializedOnlyAfterInit ==
    FirstInitNotCompleted =>
        /\ getEntropy = Err(ErrNotInit)
        /\ \A c \in Callers :
              calls[c].op \in {"recoverSecret", "forgetSecret"} =>
                  (calls[c].pc = "settled" /\ calls[c].res = Err(ErrNotInit))
        /\ (ret.op \in {"recoverSecret", "forgetSecret", "getEntropy"}) =>
              ret.res = Err(ErrNotInit)

(***************************************************************************)
(* C14.  recoverSecret sends the private_key request to the provider of    *)
(* the client it invoked connect on, in every interleaving: a call that    *)
(* is suspended in the request has asked the client it connected, also     *)
(* when init replaced the client while the call was suspended in connect.  *)
(***************************************************************************)
C14_RequestFromConnectedClient ==
    \A c \in Callers :
        (calls[c].op = "recoverSecret" /\ calls[c].pc = "request") =>
            calls[c].client = calls[c].conn

(***************************************************************************)
(* C15.  forgetSecret invokes logout first and clears the secret only when *)
(* logout has completed.  The step that starts the call invokes logout     *)
(* once and leaves the secret as it was; while the call stays suspended in *)
(* logout the secret changes only when some other call finishes; the step  *)
(* that ends the suspension is the step in which the call returns, and the *)
(* clear happens in that step, when logout resolved.                       *)
(***************************************************************************)
C15_LogoutThenClear ==
    [][\A c \in Callers :
          /\ Suspends(c, "forgetSecret") =>
                /\ calls'[c].pc = "logout"
                /\ calls'[c].nLogout = 1
                /\ secret' = secret
          /\ (calls[c].pc = "logout" /\ calls'[c].pc = "logout"
                                     /\ secret' # secret) =>
                (Finishes("recoverSecret") \/ Finishes("forgetSecret"))
          /\ (calls[c].pc = "logout" /\ calls'[c].pc # "logout") =>
                /\ Finishes("forgetSecret")
                /\ calls'[c].pc = "settled"
                /\ calls'[c].res = ret'.res
                /\ ret'.nLogout = 1
                /\ ret'.res.kind = "value" => secret' = JsNull
                /\ ret'.res.kind = "error" => secret' = secret
      ]_vars

C15_Witness ==
    /\ \E c \in Callers : calls[c].op = "forgetSecret" /\ calls[c].pc = "logout"
    /\ secret = JsString(HexA)
    /\ ret.op = "getEntropy"
    /\ ret.res = Val(JsString(HexA))

(***************************************************************************)
(* C16.  In every reachable state a stored secret implies a session        *)
(* handle, and the session handle, once set by init, is never absent       *)
(* again, whatever calls follow and however they end.                      *)
(***************************************************************************)
C16_HandleNeverLost ==
    /\ [](secret # JsNull => web3auth # 0)
    /\ [][web3auth # 0 => web3auth' # 0]_vars

C16_Witness ==
    /\ secret = JsString(HexA)
    /\ web3auth # 0
    /\ ret.op = "init"
    /\ ret.res = Err(ErrInitModal)

(***************************************************************************)
(* C17.  getEntropy and the derivation getters only read the session       *)
(* state: a getter call, whether it returns a value or throws, leaves the  *)
(* session handle, the secret and every call in flight as they were and    *)
(* invokes no connect, request or logout.                                  *)
(***************************************************************************)
C17_GettersOnlyRead ==
    [][(\E op \in {"getEntropy"} \cup DerivationGetters : Finishes(op)) =>
          /\ UNCHANGED <<web3auth, secret, calls>>
          /\ ret'.before = secret
          /\ ret'.res.kind \in {"value", "error"}
          /\ ret'.nConnect = 0 /\ ret'.nRequest = 0 /\ ret'.nLogout = 0
      ]_vars

C17_Witness ==
    /\ ret.op = "getMnemonic"
    /\ ret.res = Err(ErrInvalidEntropy)
    /\ secret = JsString(HexShort)
    /\ ret.before = secret
    /\ \E c \in Callers : calls[c].pc = "request"

(***************************************************************************)
(* C18.  For every valid account index i and valid entropy, getPrivateKey  *)
(* derives the child of the master key along exactly five steps: 44, 634   *)
(* and i, each hardened (the index plus 2^31), then 0 and 0, not hardened. *)
(* The coin type is always 634.  getPrivateKeyBytes returns the private    *)
(* key and getPublicKeyBytes the public key of that same child.            *)
(***************************************************************************)
ChildPath(accountIndex) ==
    <<[index |-> <<4, 4>>, hardened |-> TRUE],
      [index |-> <<6, 3, 4>>, hardened |-> TRUE],
      [index |-> accountIndex.v.int, hardened |-> TRUE],
      [index |-> <<0>>, hardened |-> FALSE],
      [index |-> <<0>>, hardened |-> FALSE]>>

C18_FixedDerivationPath ==
    (/\ ret.op \in KeyGetters
     /\ DefaultIndex(ret.arg) \in IndexesInRange
     /\ ValidEntropy(secret)) =>
        /\ ret.res.kind = "value"
        /\ ret.res.val.v.path = ChildPath(DefaultIndex(ret.arg))
        /\ ret.res.val.v.seed = getSeed.val
        /\ ret.res.val.t = CASE ret.op = "getPrivateKey" -> "hdkey"
                             [] ret.op = "getPrivateKeyBytes" -> "privateKey"
                             [] ret.op = "getPublicKeyBytes" -> "publicKey"
        /\ ret.res.val.v = getPrivateKey(ret.arg).val.v

C18_Witness ==
    /\ ret.op = "getPublicKeyBytes"
    /\ ret.arg = NumMaxIndex
    /\ secret = JsString(HexA)
    /\ ret.res.kind = "value"
    /\ ret.res.val.t = "publicKey"
    /\ ret.res.val.v.path[3] =
           [index |-> <<2, 1, 4, 7, 4, 8, 3, 6, 4, 7>>, hardened |-> TRUE]

(***************************************************************************)
(* C19.  When the collaborator answers every connect, request and logout,  *)
(* every recoverSecret and forgetSecret call that passed the guard         *)
(* eventually completes.  A recoverSecret call invokes connect exactly     *)
(* once and the private_key request at most once; a forgetSecret call      *)
(* invokes logout exactly once; nothing is retried.                        *)
(***************************************************************************)
\* The collaborator operations invoked so far by a call in flight.
CountsInFlight(call) ==
    CASE call.pc # "settled" /\ call.op = "recoverSecret" ->
             /\ call.nConnect = 1
             /\ call.nRequest = IF call.pc = "request" THEN 1 ELSE 0
             /\ call.nLogout = 0
      [] call.pc # "settled" /\ call.op = "forgetSecret" ->
             /\ call.nLogout = 1
             /\ call.nConnect = 0 /\ call.nRequest = 0
      [] OTHER -> call.nConnect = 0 /\ call.nRequest = 0 /\ call.nLogout = 0

\* The collaborator operations a finished call invoked in all.
CountsFinished ==
    CASE ret.op = "recoverSecret" /\ ret.res # Err(ErrNotInit) ->
             /\ ret.nConnect = 1
             /\ ret.nRequest \in {0, 1}
             /\ ret.res \in {Val(JsTrue), Err(ErrRequest)} <=> ret.nRequest = 1
             /\ ret.nLogout = 0
      [] ret.op = "forgetSecret" /\ ret.res # Err(ErrNotInit) ->
             /\ ret.nLogout = 1
             /\ ret.nConnect = 0 /\ ret.nRequest = 0
      [] OTHER -> ret.nConnect = 0 /\ ret.nRequest = 0 /\ ret.nLogout = 0

C19_CallsCompleteWithoutRetry ==
    /\ \A c \in Callers :
          (calls[c].op \in {"recoverSecret", "forgetSecret"})
              ~> (calls[c].pc \in {"idle", "settled"})
    /\ [](CountsFinished /\ \A c \in Callers : CountsInFlight(calls[c]))

C19_Witness ==
    /\ ret.op = "recoverSecret"
    /\ ret.res = Val(JsTrue)
    /\ ret.nConnect = 1
    /\ ret.nRequest = 1
    /\ \E c \in Callers : calls[c].op = "forgetSecret" /\ calls[c].nLogout = 1

====
